---- MODULE Spec2Model ----
(***************************************************************************)
(* A model of music-scraping (src/main.py): the title-to-track pipeline of *)
(* App: the record-store fetch, the scrape and duplicate filter, playlist  *)
(* resolution, classification with retry and wait, reconciliation against  *)
(* the playlist, the local report and the record-store write (Spec); and   *)
(* the authorization step with its listener thread, which                  *)
(* src/spotify-backup.py repeats line for line (AuthSpec).                 *)
(*                                                                         *)
(* Strings whose characters matter (the classifier's fields, error         *)
(* messages) are sequences of one-character strings; raw titles are only   *)
(* ever compared for equality and stay whole strings.                      *)
(***************************************************************************)
EXTENDS Integers, Sequences, FiniteSets, TLC

\* ------------------------------------------------------------------ bounds

\* How many raw titles one scrape returns at most.
MaxTitles == 2

\* How many requests the browser sends to the callback port at most.
MaxRequests == 2

\* ------------------------------------------------------- character strings

\* The cased letters the model's strings use, as (lower, upper) pairs.
CasePairs ==
    { <<"u", "U">>, <<"n", "N">>, <<"k", "K">>, <<"o", "O">>, <<"w", "W">>,
      <<"d", "D">>, <<"j", "J">>, <<"x", "X">>, <<"s", "S">>, <<"y", "Y">> }

IsLower(c) == \E p \in CasePairs : p[1] = c
IsUpper(c) == \E p \in CasePairs : p[2] = c
IsCased(c) == IsLower(c) \/ IsUpper(c)
ToUpper(c) == IF IsLower(c) THEN (CHOOSE p \in CasePairs : p[1] = c)[2] ELSE c
ToLower(c) == IF IsUpper(c) THEN (CHOOSE p \in CasePairs : p[2] = c)[1] ELSE c

\* str.title(): a cased character that follows an uncased one (or starts the
\* string) is upper-cased, every other cased character is lower-cased.
TitleMutIdentity(s) == s
title(s) ==
    [k \in 1..Len(s) |->
        IF k = 1 \/ ~IsCased(s[k - 1]) THEN ToUpper(s[k]) ELSE ToLower(s[k])]

\* A JSON value of the classifier's object that is not a string, and a key
\* the object does not hold.
NonStr == << "<null>" >>
Absent == << "<absent>" >>

Unknown == << "U", "n", "k", "n", "o", "w", "n" >>

\* default_response of _ask.
default_response == [artist |-> Unknown, track |-> Unknown, title |-> Unknown]

\* --------------------------------------------------------- retry and waits

\* stop_after_attempt(3) of _ask's and of _update_database's retry decorator.
AskStopMut == 3 + 1
AskStopAfterAttempt == 3
UpdateStopMut == 3 + 1
UpdateStopAfterAttempt == 3

\* wait_exponential(multiplier=2, min=2, max=60).
WaitMultiplier == 2
WaitMin == 2
WaitMax == 60

Max2(a, b) == IF a >= b THEN a ELSE b
Min2(a, b) == IF a <= b THEN a ELSE b

\* The decorator's wait after failed attempt number n: multiplier * 2^(n-1),
\* kept within [min, max].
wait_exponential(n) == Max2(WaitMin, Min2(WaitMultiplier * (2 ^ (n - 1)), WaitMax))

\* The fixed result of _get_wait_time when the message does not parse.
DefaultWait == 120

Digits == << "0", "1", "2", "3", "4", "5", "6", "7", "8", "9" >>
IsDigit(c) == \E d \in 1..10 : Digits[d] = c
DigitVal(c) == (CHOOSE d \in 1..10 : Digits[d] = c) - 1

\* s.split('s', 1)[0]: the text before the first 's', the whole text if none.
BeforeFirstS(s) ==
    IF \E k \in 1..Len(s) : s[k] = "s"
    THEN SubSeq(s, 1, (CHOOSE k \in 1..Len(s) :
                          s[k] = "s" /\ \A h \in 1..(k - 1) : s[h] # "s") - 1)
    ELSE s

IsNotDot(c) == c # "."
RemoveDots(s) == SelectSeq(s, IsNotDot)
ReplaceM(s) == [k \in 1..Len(s) |-> IF s[k] = "m" THEN "." ELSE s[k]]

\* Whether float() accepts the text: digits with at most one point.
FloatOK(s) ==
    /\ \A k \in 1..Len(s) : IsDigit(s[k]) \/ s[k] = "."
    /\ \E k \in 1..Len(s) : IsDigit(s[k])
    /\ Cardinality({k \in 1..Len(s) : s[k] = "."}) <= 1

RECURSIVE DigitsValue(_)
DigitsValue(s) ==
    IF s = <<>> THEN 0
    ELSE 10 * DigitsValue(SubSeq(s, 1, Len(s) - 1)) + DigitVal(s[Len(s)])

\* int(float(text) * 60) for an accepted text.
TimesSixty(s) ==
    LET dot == IF \E k \in 1..Len(s) : s[k] = "."
               THEN CHOOSE k \in 1..Len(s) : s[k] = "." ELSE Len(s) + 1
        whole == SubSeq(s, 1, dot - 1)
        frac == SubSeq(s, dot + 1, Len(s))
    IN  DigitsValue(whole) * 60 + (DigitsValue(frac) * 60) \div (10 ^ Len(frac))

\* _get_wait_time of the text that follows the last 'Please try again in '
\* of the error message (the whole message when it has no such phrase).
_get_wait_time(tail) ==
    LET text == ReplaceM(RemoveDots(BeforeFirstS(tail)))
    IN  IF FloatOK(text) THEN TimesSixty(text) ELSE DefaultWait

\* The error messages of the classifier service, each given by the text
\* split('Please try again in ')[-1] leaves: "7s.", "3m", "1m30.5s." and
\* "timeout" (a message without the phrase).
ErrorMessages ==
    { << "7", "s", "." >>,
      << "3", "m" >>,
      << "1", "m", "3", "0", ".", "5", "s", "." >>,
      << "t", "i", "m", "e", "o", "u", "t" >> }

\* ------------------------------------------------- the classifier's answers

UnknownLower == << "u", "n", "k", "n", "o", "w", "n" >>
\* "unknown" with the letters at the positions S in upper case.
Casing(S) == [k \in 1..7 |-> IF k \in S THEN ToUpper(UnknownLower[k]) ELSE UnknownLower[k]]
UnknownCasings == { Casing(S) : S \in SUBSET (1..7) }
\* The casings the classifier's answers use: unknown, UNKNOWN, Unknown and
\* uNkNoWn.
CaseSamples == { {}, 1..7, {1}, {2, 4, 6} }

\* Objects that report no song: every field "unknown" in some letter case,
\* each field in a casing of its own.
UnknownAnswers ==
    { [artist |-> Casing(a), track |-> Casing(b), title |-> Casing(c)] :
        a \in CaseSamples, b \in CaseSamples, c \in CaseSamples }

SongA ==
    [artist |-> << "d", "j", " ", "x" >>,
     track |-> << "s", "o", "-", "s", "O" >>,
     title |-> << "d", "j", " ", "x", " ", "s", "o", "-", "s", "O" >>]

\* Objects the JSON parser accepts although they break the asked shape: a
\* value that is no string, a missing key.
MalformedAnswers ==
    { [SongA EXCEPT !.artist = NonStr],
      [SongA EXCEPT !.artist = Absent] }

Answers == UnknownAnswers \cup {SongA} \cup MalformedAnswers

\* What one chat.invoke can do: return a parsed object, raise
\* OutputParserException, or raise another error with a message.
ChatResponses ==
    { [kind |-> "ok", obj |-> a, msg |-> <<>>] : a \in Answers }
    \cup { [kind |-> "parse_error", obj |-> default_response, msg |-> <<>>] }
    \cup { [kind |-> "error", obj |-> default_response, msg |-> m] : m \in ErrorMessages }

\* Whether the object reports no song: every field is "unknown" in some
\* letter case.
LowerCased(s) == [k \in 1..Len(s) |-> ToLower(s[k])]
ReportsNoSong(obj) ==
    /\ LowerCased(obj.artist) = UnknownLower
    /\ LowerCased(obj.track) = UnknownLower
    /\ LowerCased(obj.title) = UnknownLower

\* Whether the 'for key in music_obj.keys(): music_obj[key].title()' loop of
\* _get_new_tracks raises (a value without .title()).
TitleRaises(obj) == obj.artist = NonStr \/ obj.track = NonStr \/ obj.title = NonStr

TitleField(f) == IF f = Absent THEN Absent ELSE title(f)

\* The record _get_new_tracks builds from the object and the raw title
\* (channel and _date, the same for every record of a run, are left out).
MakeTrack(obj, t) ==
    [artist |-> TitleField(obj.artist), track |-> TitleField(obj.track),
     title |-> TitleField(obj.title), original_title |-> t]

\* ------------------------------------------------------------ remote data

\* The raw titles the page can show.
Titles == { "Artist X - Song Y (Official Video)", "Random Vlog #3" }

\* Every scrape result: the sequences of at most MaxTitles raw titles.
RawSeqs == UNION { [1..n -> Titles] : n \in 0..MaxTitles }

\* The record an earlier run stored for a raw title.
StoredTrack(t) == MakeTrack(default_response, t)

\* The record store's data file report.json: absent from the gist, or holding
\* the JSON text of a list of records, of {} or of null.
StoreList(recs) == [kind |-> "list", recs |-> recs]
StoreAbsent == [kind |-> "absent", recs |-> <<>>]
StoreDict == [kind |-> "dict", recs |-> <<>>]
StoreNull == [kind |-> "null", recs |-> <<>>]

InitStores ==
    { StoreAbsent, StoreList(<<>>), StoreList(<< StoredTrack("Random Vlog #3") >>) }

\* The file at the output path: absent, or the rows a run wrote.
NoReport == [exists |-> FALSE, rows |-> <<>>]
ReportOf(rows) == [exists |-> TRUE, rows |-> rows]

\* The store and the report file when the run starts: no report beside each
\* store, and the report of an earlier run that stored its one track and
\* left it unresolved.
InitFiles ==
    { << st, NoReport >> : st \in InitStores }
    \cup { << StoreList(<< StoredTrack("Random Vlog #3") >>),
             ReportOf(<< StoredTrack("Random Vlog #3") >>) >> }

\* The in-process value of database: None, {} or a list of records.
DbNone == [kind |-> "none", recs |-> <<>>]
DbDict == [kind |-> "dict", recs |-> <<>>]
DbList(recs) == [kind |-> "list", recs |-> recs]

\* The catalog's tracks.
M1 == [uri |-> "spotify:track:1", name |-> "So-So", artist |-> "Dj X"]
Catalog == { M1 }

\* What the catalog search of _get_track_metadata can come back with: a
\* request error, an empty item list, or the first item.
SearchResults ==
    { [kind |-> "error", m |-> M1], [kind |-> "none", m |-> M1] }
    \cup { [kind |-> "match", m |-> m] : m \in Catalog }

\* What the append request of _add_track_to_playlist can come back with:
\* 201, another status that raise_for_status lets pass, or a request error.
AppendResults == { "created", "other_success", "error" }

TargetName == "Youtube Scrapping"
\* 'Youtube Scrapping' in playlist['name']: a substring test.
NameMatches(name) == name \in { "Youtube Scrapping", "Old Youtube Scrapping" }

Playlist(id, name, items) == [id |-> id, name |-> name, items |-> items]

\* The user's playlists before the first in the order the listing
\* returns them.
InitPlaylists ==
    { <<>>,
      << Playlist(1, "Youtube Scrapping", <<>>) >>,
      << Playlist(1, "Youtube Scrapping", << M1 >>) >>,
      << Playlist(1, "Rock", <<>>) >>,
      << Playlist(1, "Rock", <<>>), Playlist(2, "Youtube Scrapping", <<>>) >>,
      << Playlist(1, "Old Youtube Scrapping", <<>>) >> }

\* playlist_id when _get_playlist_id falls off its loop (None).
NoPlaylist == 0

\* -------------------------------------------------------------- the state

VARIABLES
    store,            \* remote: the record store's data file
    user_playlists,   \* remote: the user's playlists, each with its items
    report_file,      \* local: the rows of the file at the output path
    pc,               \* where the program is
    database,         \* self.database
    titles,           \* self.titles
    playlist_id,      \* self.playlist_id
    new_tracks,       \* new_tracks of _get_new_tracks and run
    not_added_tracks, \* not_added_tracks of as indices into new_tracks
    i,                \* index of the title _get_new_tracks is at
    attempt_number,   \* failed attempts of the retry decorator so far
    j,                \* index of the track run's loop is at
    update_attempts,  \* attempts of _update_database's decorator so far
    start_store,      \* history: the store when this run started
    start_report,     \* history: the report file when this run started
    raw,              \* history: the titles the page showed
    resolution,       \* history: the listing seen and the create calls made
    ask,              \* the phase of _ask, and history: the calls, sleeps,
                      \* last error message and outcome for the title at i,
                      \* kept until the next step
    asked,            \* history: the titles passed to the classifier this run
    iter,             \* history: what the last iteration of run's loop did,
                      \* kept until the report
    confirmed,        \* history: indices whose append returned 201, and
    present,          \* indices whose match was in the snapshot; both kept
                      \* until the report
    written,          \* history: the content this run wrote to the store
    main_pc,          \* authorization: where _get_spotify_auth_code is
    listener,         \* the state of server_thread
    backlog,          \* the connections waiting on the server's socket
    request,          \* the request the handler is working on
    server_auth_code, \* server.auth_code
    auth_code,        \* auth_code of _get_spotify_auth_code
    browser,          \* how many requests the browser has sent
    auth              \* history: how the join ended, the value read after
                      \* it, whether input() was called, the code the user
                      \* meant, the requests handled, the value returned

\* The variables of the authorization step.
authvars ==
    << main_pc, listener, backlog, request, server_auth_code, auth_code,
       browser, auth >>

\* The variables of the pipeline.
pipeline ==
    << store, user_playlists, report_file, pc, database, titles,
       playlist_id, new_tracks, not_added_tracks, i, attempt_number, j,
       update_attempts, start_store, start_report, raw, resolution, ask,
       asked, iter, confirmed, present, written >>

vars ==
    << store, user_playlists, report_file, pc, database, titles,
       playlist_id, new_tracks, not_added_tracks, i, attempt_number, j,
       update_attempts, start_store,
       start_report, authvars, raw, resolution, ask, asked, iter,
       confirmed, present, written >>

remote == << store, user_playlists, report_file >>

\* server.auth_code before the handler set it (getattr's default None), and
\* the handler's request when it has none.
NoCode == << "<none>" >>
NoRequest == [codes |-> << << "<no request>" >> >>]
NoAuth == [joined |-> "no", seen |-> NoCode, prompted |-> FALSE,
           meant |-> NoCode, handled |-> 0, returned |-> NoCode]

\* _get_spotify_auth_code before webbrowser.open: no server, no thread.
AuthIdle ==
    /\ main_pc = "idle"
    /\ listener = "unstarted"
    /\ backlog = <<>>
    /\ request = NoRequest
    /\ server_auth_code = NoCode
    /\ auth_code = NoCode
    /\ browser = 0
    /\ auth = NoAuth

NoAsk == [backoff_calls |-> 0, final_calls |-> 0, waits |-> <<>>, outcome |-> "none", phase |-> "backoff",
          no_song |-> FALSE, msg |-> <<>>]
NoIter == [idx |-> 0, path |-> "none", in_playlist |-> FALSE,
           search_calls |-> 0, fetch_calls |-> 0, append_calls |-> 0]
NoResolution == [done |-> FALSE, listing |-> <<>>, create_calls |-> 0]
NotWritten == [kind |-> "nothing", recs |-> <<>>]
NoRaw == [scraped |-> FALSE, titles |-> <<>>]

\* The state when the interpreter starts main.py: one run of the program,
\* started on each of the remote states an earlier run can have left.
PipelineInit(files, playlists) ==
    /\ \E f \in files :
        /\ store = f[1]
        /\ report_file = f[2]
    /\ user_playlists \in playlists
    /\ pc = "fetch"
    /\ database = DbNone
    /\ titles = <<>>
    /\ playlist_id = NoPlaylist
    /\ new_tracks = <<>>
    /\ not_added_tracks = <<>>
    /\ i = 1
    /\ attempt_number = 0
    /\ j = 1
    /\ update_attempts = 0
    /\ start_store = store
    /\ start_report = report_file
    /\ raw = NoRaw
    /\ resolution = NoResolution
    /\ ask = NoAsk
    /\ asked = {}
    /\ iter = NoIter
    /\ confirmed = {}
    /\ present = {}
    /\ written = NotWritten

\* The pipeline's runs: the authorization step is taken as done, its token
\* opaque (a token the service refuses shows as the failure of each request).
Init ==
    /\ PipelineInit(InitFiles, InitPlaylists)
    /\ AuthIdle

\* ------------------------------------------------- startup: fetch, scrape

\* get_file_from_gist for the data file: None on a request or decode error,
\* {} when the gist has no such file, else json.loads of its content.
get_file_from_gist(st, ok) ==
    IF ~ok \/ st.kind = "null" THEN DbNone
    ELSE IF st.kind \in {"absent", "dict"} THEN DbDict
    ELSE DbList(st.recs)

\* The module's top level: both gist fetches, then credentials['user_id'],
\* which raises when the credential fetch gave None.
FetchDatabase ==
    /\ pc = "fetch"
    /\ \E db_ok \in BOOLEAN, cred_ok \in BOOLEAN :
        /\ database' = get_file_from_gist(store, db_ok)
        /\ pc' = IF cred_ok THEN "content" ELSE "crashed"
    /\ UNCHANGED << remote, titles, playlist_id, new_tracks,
                    not_added_tracks, i, attempt_number, j, update_attempts,
                    start_store,
                    start_report, authvars, raw, resolution, ask, asked,
                    iter, confirmed,
                    present, written >>

\* _identify: whether a record of the database has this original_title.
_identifyMut(t, db) == \E k \in 1..Len(db.recs) : db.recs[k].original_title # t
_identify(t, db) == \E k \in 1..Len(db.recs) : db.recs[k].original_title = t

\* Whether iterating the database raises (None is not iterable).
IterationRaises(db) == db.kind = "none"

\* _parse: the titles of the page that _identify does not know, in order.
_parseMut(R, db) ==
    LET kept == LET Keep(t) == ~_identify(t, db) IN SelectSeq(R, Keep)
    IN  [k \in 1..Len(kept) |-> kept[Len(kept) + 1 - k]]
_parse(R, db) ==
    LET Keep(t) == ~_identify(t, db) IN SelectSeq(R, Keep)

\* _get_content: an address that does not start with http raises; a failure
\* of the driver, or of _parse, is caught and gives no titles.
GetContent ==
    /\ pc = "content"
    /\ \/ /\ pc' = "crashed"
          /\ UNCHANGED << titles, raw >>
       \/ /\ pc' = "playlist"
          /\ titles' = <<>>
          /\ raw' = NoRaw
       \/ \E R \in RawSeqs :
            /\ pc' = "playlist"
            /\ raw' = [scraped |-> TRUE, titles |-> R]
            /\ titles' = IF R # <<>> /\ IterationRaises(database)
                         THEN <<>> ELSE _parse(R, database)
    /\ UNCHANGED << remote, database, playlist_id, new_tracks,
                    not_added_tracks, i, attempt_number, j, update_attempts,
                    start_store,
                    start_report, authvars, resolution, ask, asked, iter,
                    confirmed,
                    present, written >>

\* ------------------------------------------------------ playlist resolution

\* The pc after __init__, and after each title: run starts with
\* _get_new_tracks; with no title left its loop over new_tracks follows, and
\* with no track at all the report.
PcClassify(k, ts) ==
    IF k <= Len(ts) THEN "ask" ELSE IF ts = <<>> THEN "report" ELSE "reconcile"

\* _get_playlist_id: only the first listed playlist is looked at: its id is
\* returned when its name matches, else a playlist is created; an empty
\* listing returns None. A listing without 'items' raises.
_get_playlist_idMut(listing) ==
    IF listing = <<>> THEN [create |-> FALSE, id |-> NoPlaylist]
    ELSE IF NameMatches(listing[1].name) THEN [create |-> TRUE, id |-> NoPlaylist]
    ELSE [create |-> FALSE, id |-> listing[1].id]
_get_playlist_id(listing) ==
    IF listing = <<>> THEN [create |-> FALSE, id |-> NoPlaylist]
    ELSE IF NameMatches(listing[1].name) THEN [create |-> FALSE, id |-> listing[1].id]
    ELSE [create |-> TRUE, id |-> NoPlaylist]

GetPlaylistId ==
    /\ pc = "playlist"
    /\ \/ /\ pc' = "crashed"
          /\ UNCHANGED << user_playlists, playlist_id, resolution >>
       \/ LET res == _get_playlist_id(user_playlists)
              fresh == Playlist(Len(user_playlists) + 1, TargetName, <<>>)
          IN  /\ pc' = PcClassify(1, titles)
              /\ IF res.create
                 THEN /\ playlist_id' = fresh.id
                      /\ \/ user_playlists' = << fresh >> \o user_playlists
                         \/ user_playlists' = Append(user_playlists, fresh)
                 ELSE /\ playlist_id' = res.id
                      /\ UNCHANGED user_playlists
              /\ resolution' = [done |-> TRUE, listing |-> user_playlists,
                                create_calls |-> IF res.create THEN 1 ELSE 0]
    /\ UNCHANGED << store, report_file, database, titles, new_tracks,
                    not_added_tracks, i, attempt_number, j, update_attempts,
                    start_store,
                    start_report, authvars, raw, ask, asked, iter, confirmed,
                    present,
                    written >>

\* ----------------------------------------------------------- classification

\* The end of one _ask and the rest of the loop body of _get_new_tracks: the
\* fields are title-cased (which raises on a value that is no string) and the
\* record is appended.
Finish(obj, outcome, log) ==
    /\ ask' = [log EXCEPT !.outcome = outcome, !.phase = "backoff",
                          !.no_song = outcome = "answered" /\ ReportsNoSong(obj)]
    /\ attempt_number' = 0
    /\ IF TitleRaises(obj)
       THEN /\ pc' = "crashed"
            /\ UNCHANGED << new_tracks, i >>
       ELSE /\ new_tracks' = Append(new_tracks, MakeTrack(obj, titles[i]))
            /\ i' = i + 1
            /\ pc' = PcClassify(i + 1, titles)

\* One chat.invoke under the retry decorator: every exception, the parser's
\* included, is retried until stop_after_attempt; the last one is re-raised
\* to _ask, which returns the default on OutputParserException and computes
\* the wait on any other.
AskAttempt ==
    /\ pc = "ask"
    /\ ask.phase = "backoff"
    /\ \E r \in ChatResponses :
        LET n == attempt_number + 1
            base == IF ask.outcome = "none" THEN ask ELSE NoAsk
            log == [base EXCEPT !.backoff_calls = @ + 1]
        IN  /\ asked' = asked \cup { titles[i] }
            /\ IF r.kind = "ok"
               THEN Finish(r.obj, "answered", log)
               ELSE IF n < AskStopAfterAttempt
               THEN /\ attempt_number' = n
                    /\ ask' = [log EXCEPT !.waits = Append(@, wait_exponential(n))]
                    /\ UNCHANGED << pc, new_tracks, i >>
               ELSE IF r.kind = "parse_error"
               THEN Finish(default_response, "parse_failure", log)
               ELSE /\ attempt_number' = n
                    /\ ask' = [log EXCEPT !.waits = Append(@, _get_wait_time(r.msg)),
                                          !.phase = "final", !.msg = r.msg]
                    /\ UNCHANGED << pc, new_tracks, i >>
    /\ UNCHANGED << remote, database, titles, playlist_id,
                    not_added_tracks, j, update_attempts, start_store,
                    start_report, authvars, raw,
                    resolution, iter, confirmed, present, written >>

\* The single chat.invoke after the sleep: any exception gives the default.
AskFinal ==
    /\ pc = "ask"
    /\ ask.phase = "final"
    /\ \E r \in ChatResponses :
        LET log == [ask EXCEPT !.final_calls = @ + 1]
        IN  IF r.kind = "ok"
            THEN Finish(r.obj, "answered", log)
            ELSE Finish(default_response, "final_failure", log)
    /\ UNCHANGED << remote, database, titles, playlist_id,
                    not_added_tracks, j, update_attempts, start_store,
                    start_report, authvars, raw,
                    resolution, asked, iter, confirmed, present, written >>

\* ----------------------------------------------------------- reconciliation

HasTarget == playlist_id # NoPlaylist
\* The items of the playlist playlist_id names.
TargetItems ==
    IF \E k \in 1..Len(user_playlists) : user_playlists[k].id = playlist_id
    THEN user_playlists[CHOOSE k \in 1..Len(user_playlists) :
                            user_playlists[k].id = playlist_id].items
    ELSE <<>>
Pairs(items) == { << items[k].name, items[k].artist >> : k \in 1..Len(items) }

\* What the membership request can come back with: the items, a request
\* error, or a payload whose items do not have the expected keys.
FetchResults == { "ok", "request_error", "bad_payload" }

\* _get_existing_tracks: the (name, artist) pairs of the items; the empty
\* set on a request error.
_get_existing_tracks(fr, items) == IF fr = "ok" THEN Pairs(items) ELSE {}

\* _add_track_to_playlist: True only for status 201.
_add_track_to_playlist(ar) == ar = "created"

\* The path one iteration of run's loop takes once the track is in the
\* database: no match, a payload error caught by the loop's except, the
\* match already in the snapshot, or the append and its result.
IterationPath(sr, fr, items, ar) ==
    IF sr.kind # "match" THEN "no_match"
    ELSE IF fr = "bad_payload" THEN "raised"
    ELSE IF << sr.m.name, sr.m.artist >> \in _get_existing_tracks(fr, items)
    THEN "present"
    ELSE IF _add_track_to_playlist(ar) THEN "appended" ELSE "append_failed"

\* Whether the iteration ends with not_added_tracks.append(track).
MarksUnresolvedMut(path) == path \in { "no_match", "raised" }
MarksUnresolved(path) == path \in { "no_match", "append_failed", "raised" }

\* The playlists after the service appended track m to playlist id.
WithItem(pls, id, m) ==
    [k \in 1..Len(pls) |->
        IF pls[k].id = id THEN [pls[k] EXCEPT !.items = Append(@, m)] ELSE pls[k]]

\* One iteration of the loop of run. track['artist'] and track['track'] are
\* read before the try: a record without one of them ends the run. Inside the
\* try, database.append raises on a database that is no list. With no
\* playlist id the membership and append requests go to a URL that does not
\* exist and fail.
ReconcileTrack ==
    /\ pc = "reconcile"
    /\ LET track == new_tracks[j]
           next_pc == IF j + 1 <= Len(new_tracks) THEN "reconcile" ELSE "report"
       IN  IF track.artist = Absent \/ track.track = Absent
           THEN /\ pc' = "crashed"
                /\ iter' = [NoIter EXCEPT !.idx = j, !.path = "crash"]
                /\ UNCHANGED << database, not_added_tracks, j, user_playlists,
                                confirmed, present >>
           ELSE IF database.kind # "list"
           THEN /\ pc' = next_pc
                /\ j' = j + 1
                /\ not_added_tracks' = Append(not_added_tracks, j)
                /\ iter' = [NoIter EXCEPT !.idx = j, !.path = "raised"]
                /\ UNCHANGED << database, user_playlists, confirmed, present >>
           ELSE \E sr \in SearchResults, fr \in FetchResults, ar \in AppendResults :
                LET fetched == IF HasTarget THEN fr ELSE "request_error"
                    result == IF HasTarget THEN ar ELSE "error"
                    path == IterationPath(sr, fetched, TargetItems, result)
                    called == path \in { "appended", "append_failed" }
                IN  /\ pc' = next_pc
                    /\ j' = j + 1
                    /\ database' = DbList(Append(database.recs, track))
                    /\ not_added_tracks' =
                         IF MarksUnresolved(path)
                         THEN Append(not_added_tracks, j) ELSE not_added_tracks
                    /\ user_playlists' =
                         IF called /\ result # "error"
                         THEN WithItem(user_playlists, playlist_id, sr.m)
                         ELSE user_playlists
                    /\ confirmed' = IF called /\ result = "created"
                                    THEN confirmed \cup {j} ELSE confirmed
                    /\ present' = IF path = "present"
                                  THEN present \cup {j} ELSE present
                    /\ iter' = [idx |-> j, path |-> path,
                                in_playlist |-> /\ sr.kind = "match"
                                                /\ << sr.m.name, sr.m.artist >>
                                                     \in Pairs(TargetItems),
                                search_calls |-> 1,
                                fetch_calls |-> IF sr.kind = "match" THEN 1 ELSE 0,
                                append_calls |-> IF called THEN 1 ELSE 0]
    /\ ask' = NoAsk
    /\ UNCHANGED << store, report_file, titles, playlist_id, new_tracks, i,
                    attempt_number, update_attempts, start_store,
                    start_report, authvars, raw,
                    resolution, asked, written >>

\* ------------------------------------------------------- report and store

\* The rows of the report: the unresolved records.
Rows(tracks, idxs) == [k \in 1..Len(idxs) |-> tracks[idxs[k]]]

\* _save_not_added_tracks: the file after the call: written, whatever it
\* held, for a non-empty list only.
_save_not_added_tracksMut(rows, file) == ReportOf(rows)
_save_not_added_tracks(rows, file) ==
    IF rows # <<>> THEN ReportOf(rows) ELSE file

\* The call of _save_not_added_tracks in run; to_excel raises when the file
\* cannot be written.
SaveReport ==
    /\ pc = "report"
    /\ \/ /\ pc' = "update"
          /\ report_file' = _save_not_added_tracks(
                                Rows(new_tracks, not_added_tracks), report_file)
       \/ /\ not_added_tracks # <<>>
          /\ pc' = "crashed"
          /\ UNCHANGED report_file
    /\ ask' = NoAsk
    /\ iter' = NoIter
    /\ confirmed' = {}
    /\ present' = {}
    /\ UNCHANGED << store, user_playlists, database, titles, playlist_id,
                    new_tracks, not_added_tracks, i, attempt_number, j,
                    update_attempts, start_store,
                    start_report, authvars, raw, resolution, asked,
                    written >>

\* json.dumps(self.database): the content _update_database sends.
Content(db) ==
    IF db.kind = "none" THEN StoreNull
    ELSE IF db.kind = "dict" THEN StoreDict
    ELSE StoreList(db.recs)

\* One requests.patch of _update_database under its retry decorator: status
\* 200 ends it, any other status or a request error is retried until
\* stop_after_attempt, and the re-raised error is caught and logged.
UpdateAttempt ==
    /\ pc = "update"
    /\ \/ /\ store' = Content(database)
          /\ written' = Content(database)
          /\ update_attempts' = update_attempts + 1
          /\ pc' = "done"
       \/ /\ update_attempts' = update_attempts + 1
          /\ pc' = IF update_attempts + 1 < UpdateStopAfterAttempt
                   THEN "update" ELSE "done"
          /\ UNCHANGED << store, written >>
    /\ UNCHANGED << user_playlists, report_file, database, titles,
                    playlist_id, new_tracks, not_added_tracks, i,
                    attempt_number, j, start_store,
                    start_report, authvars, raw, resolution, ask,
                    asked, iter, confirmed, present >>

Next ==
    \/ FetchDatabase
    \/ GetContent
    \/ GetPlaylistId
    \/ AskAttempt
    \/ AskFinal
    \/ ReconcileTrack
    \/ SaveReport
    \/ UpdateAttempt

Spec == Init /\ [][Next]_vars

\* ------------------------------------------------- the authorization step

\* The codes the authorization service issues.
Codes == { << "A", "1" >>, << "B" >> }

\* A request to the callback port, given by params['code'] of parse_qs: the
\* values of the code parameter in order, <<>> when the query has none (an
\* error redirect, a request for another path).
CodeLists == { <<>> } \cup { << c >> : c \in Codes } \cup { << c, d >> : c, d \in Codes }
Request(codes) == [codes |-> codes]
\* A connection that is closed without sending a request.
EmptyConnection == [codes |-> << << "<closed>" >> >>]

\* do_GET: server.auth_code after the handler ran on the request; a
\* connection without a request line ends before do_GET is called.
do_GET(req, code) ==
    IF req = EmptyConnection \/ req.codes = <<>> THEN code ELSE req.codes[1]

\* 'if not auth_code' of _get_spotify_auth_code: None and '' are false.
not_auth_codeMut(code) == TRUE
not_auth_code(code) == code = NoCode \/ code = <<>>

\* str.strip() of a text of one-character strings.
strip(s) ==
    LET inner == { k \in 1..Len(s) : s[k] # " " }
    IN  IF inner = {} THEN <<>>
        ELSE SubSeq(s, CHOOSE k \in inner : \A h \in inner : k <= h,
                       CHOOSE k \in inner : \A h \in inner : k >= h)

\* auth_code.startswith('http').
startswith_http(s) == Len(s) >= 4 /\ SubSeq(s, 1, 4) = << "h", "t", "t", "p" >>

\* auth_code.split('=', 1)[-1]: the text after the first '=', the whole text
\* when it has none.
AfterFirstEquals(s) ==
    IF \E k \in 1..Len(s) : s[k] = "="
    THEN SubSeq(s, 1 + (CHOOSE k \in 1..Len(s) :
                           s[k] = "=" /\ \A h \in 1..(k - 1) : s[h] # "="), Len(s))
    ELSE s

\* The value of auth_code after the manual branch, for the typed text.
ManualCode(text) ==
    LET t == strip(text)
    IN  IF startswith_http(t) THEN AfterFirstEquals(t) ELSE t

\* The redirect link of a code: http://l/?code=<code>.
Link(c) ==
    << "h", "t", "t", "p", ":", "/", "/", "l", "/", "?", "c", "o", "d", "e", "=" >> \o c

\* What the user types at the prompt for the code meant: the code, the code
\* between blanks, or the link the browser was sent to.
ManualEntries ==
    UNION { { [meant |-> c, text |-> c],
              [meant |-> c, text |-> << " " >> \o c \o << " " >>],
              [meant |-> c, text |-> Link(c) \o << " " >>] } : c \in Codes }

\* webbrowser.open, HTTPServer(...) and server_thread.start(): the browser is
\* opened before the socket listens, so a request it sends first is refused.
StartListener ==
    /\ main_pc = "idle"
    /\ main_pc' = "join"
    /\ listener' = "waiting"
    /\ UNCHANGED << backlog, request, server_auth_code, auth_code, browser,
                    auth, pipeline >>

\* The browser (or anything else on the machine) sends a request to the
\* callback port; it waits on the socket once the socket listens.
BrowserRequest ==
    /\ browser < MaxRequests
    /\ browser' = browser + 1
    /\ \E codes \in CodeLists :
        backlog' = IF main_pc = "idle" THEN backlog
                   ELSE Append(backlog, Request(codes))
    /\ UNCHANGED << main_pc, listener, request, server_auth_code, auth_code,
                    auth, pipeline >>

\* server.handle_request(), which has no timeout: the thread blocks until a
\* connection waits, and takes the first.
ListenerAccept ==
    /\ listener = "waiting"
    /\ backlog # <<>>
    /\ request' = Head(backlog)
    /\ backlog' = Tail(backlog)
    /\ listener' = "handling"
    /\ auth' = [auth EXCEPT !.handled = @ + 1]
    /\ UNCHANGED << main_pc, server_auth_code, auth_code, browser, pipeline >>

\* The handler: the response is written, then server.auth_code is set.
HandleRequest ==
    /\ listener = "handling"
    /\ server_auth_code' = do_GET(request, server_auth_code)
    /\ listener' = "finishing"
    /\ UNCHANGED << main_pc, backlog, request, auth_code, browser, auth,
                    pipeline >>

\* run_server returns after the one request: the thread ends.
ListenerExit ==
    /\ listener = "finishing"
    /\ listener' = "terminated"
    /\ request' = NoRequest
    /\ UNCHANGED << main_pc, backlog, server_auth_code, auth_code, browser,
                    auth, pipeline >>

\* server_thread.join(timeout=10): returns when the thread has ended, or
\* when the 10 seconds have passed, wherever the thread is then.
JoinReturns ==
    /\ main_pc = "join"
    /\ main_pc' = "read"
    /\ auth' = [auth EXCEPT !.joined = IF listener = "terminated"
                                       THEN "ended" ELSE "timeout"]
    /\ UNCHANGED << listener, backlog, request, server_auth_code, auth_code,
                    browser, pipeline >>

\* auth_code = getattr(server, 'auth_code', None) and the test on it.
ReadAuthCode ==
    /\ main_pc = "read"
    /\ auth_code' = server_auth_code
    /\ auth' = [auth EXCEPT !.seen = server_auth_code]
    /\ main_pc' = IF not_auth_code(server_auth_code) THEN "input" ELSE "connect"
    /\ UNCHANGED << listener, backlog, request, server_auth_code, browser,
                    pipeline >>

\* input(): the user types a text, or the call raises (EOFError on a closed
\* standard input, KeyboardInterrupt), which nothing catches: the main
\* thread ends there, before the connection that wakes the listener.
ManualInput ==
    /\ main_pc = "input"
    /\ \/ \E e \in ManualEntries :
            /\ auth_code' = ManualCode(e.text)
            /\ auth' = [auth EXCEPT !.prompted = TRUE, !.meant = e.meant]
            /\ main_pc' = "connect"
       \/ /\ auth' = [auth EXCEPT !.prompted = TRUE]
          /\ main_pc' = "raised"
          /\ UNCHANGED auth_code
    /\ UNCHANGED << listener, backlog, request, server_auth_code, browser,
                    pipeline >>

\* socket.create_connection to the callback port, closed at once, and the
\* return: the socket still listens (the server is never closed), so the
\* connection waits there for the listener.
WakeListener ==
    /\ main_pc = "connect"
    /\ backlog' = Append(backlog, EmptyConnection)
    /\ auth' = [auth EXCEPT !.returned = auth_code]
    /\ main_pc' = "returned"
    /\ UNCHANGED << listener, request, server_auth_code, auth_code, browser,
                    pipeline >>

\* The authorization step on its own, the pipeline not yet started.
AuthInit ==
    /\ AuthIdle
    /\ PipelineInit({ << StoreAbsent, NoReport >> }, { <<>> })

AuthNext ==
    \/ StartListener
    \/ BrowserRequest
    \/ ListenerAccept
    \/ HandleRequest
    \/ ListenerExit
    \/ JoinReturns
    \/ ReadAuthCode
    \/ ManualInput
    \/ WakeListener

AuthSpec == AuthInit /\ [][AuthNext]_vars

\* ------------------------------------------------------------------ claims

\* The original titles of the records the store held when the run started.
KnownAtStart ==
    { start_store.recs[k].original_title : k \in 1..Len(start_store.recs) }

\* The indices of new_tracks that are in not_added_tracks.
Unresolved == { not_added_tracks[k] : k \in 1..Len(not_added_tracks) }

\* Whether a is b with some elements left out, the others in b's order.
IsSubsequence(a, b) ==
    \E f \in [1..Len(a) -> 1..Len(b)] :
        /\ \A k \in 1..Len(a) : a[k] = b[f[k]]
        /\ \A k \in 1..Len(a), h \in 1..Len(a) : k < h => f[k] < f[h]

\* C1: a raw title that equals the original_title of a record the store held
\* at the start of the run is never passed to the classifier and never
\* becomes a track of the run, so that it is neither searched in the catalog
\* nor appended to the playlist (both are done for tracks of new_tracks only).
C1_KnownTitleNeverResubmitted ==
    \A t \in KnownAtStart :
        /\ t \notin asked
        /\ \A n \in 1..Len(new_tracks) : new_tracks[n].original_title # t
        /\ iter.idx # 0 => new_tracks[iter.idx].original_title # t

\* C1's case: the page showed a title the store knew and one it did not, the
\* classifier was called for the new one, and the run wrote its records.
C1_Witness ==
    /\ pc = "done"
    /\ written.kind = "list"
    /\ \E k \in 1..Len(raw.titles) : raw.titles[k] \in KnownAtStart
    /\ asked # {}

\* C2: the duplicate filter's output holds no known title, is a subsequence
\* of the raw titles in their order, and is empty for an empty scrape.
C2_FilterSubsequence ==
    raw.scraped =>
        /\ \A k \in 1..Len(titles) : titles[k] \notin KnownAtStart
        /\ IsSubsequence(titles, raw.titles)
        /\ raw.titles = <<>> => titles = <<>>

\* C2's case: a scrape of two titles of which the filter dropped the first.
C2_Witness ==
    /\ raw.scraped
    /\ Len(raw.titles) = 2
    /\ raw.titles[1] \in KnownAtStart
    /\ titles = << raw.titles[2] >>
    /\ pc = "playlist"

\* C3 as stated: at the end of reconciliation a track is in unresolved
\* exactly when no append for it was confirmed successful.
C3_UnresolvedIffNotConfirmed ==
    pc = "report" =>
        \A n \in 1..Len(new_tracks) : n \in Unresolved <=> n \notin confirmed

\* C3 as amended: at the end of reconciliation a track is in unresolved
\* exactly when no append for it was confirmed successful and its match was
\* not found in the playlist snapshot; no track with a confirmed append is in
\* unresolved.
C3_UnresolvedIffNotConfirmedNorPresent ==
    pc = "report" =>
        /\ \A n \in 1..Len(new_tracks) :
             n \in Unresolved <=> (n \notin confirmed /\ n \notin present)
        /\ Unresolved \cap confirmed = {}
        /\ Len(not_added_tracks) = Cardinality(Unresolved)

\* C3's case: reconciliation of two tracks ended with one found in the
\* playlist snapshot and one unresolved.
C3_Witness ==
    /\ pc = "report"
    /\ present # {}
    /\ Unresolved # {}
    /\ Len(new_tracks) = 2

\* C4 as stated: when the track's match is in the playlist, the iteration
\* issues no append call and adds no entry to unresolved.
C4_NoAppendWhenInPlaylist ==
    (iter.idx # 0 /\ iter.in_playlist) =>
        /\ iter.append_calls = 0
        /\ iter.idx \notin Unresolved

\* C5: for one title the classifier is invoked at most 3 times under the
\* retry decorator and at most once after the wait.
C5_AtMostThreePlusOne ==
    /\ ask.backoff_calls <= 3
    /\ ask.final_calls <= 1
    /\ ask.backoff_calls + ask.final_calls <= 4

\* C5's case: three failed attempts, the wait, and the final attempt.
C5_Witness ==
    /\ ask.backoff_calls = 3
    /\ ask.final_calls = 1
    /\ Len(ask.waits) = 3

\* C6 as stated: the content a run writes holds the records the store held
\* at the start of the run, unchanged, followed by one record for every
\* track classified in the run.
C6_WritesOldThenNew ==
    written.kind # "nothing" => written.recs = start_store.recs \o new_tracks

\* C7: the store write is attempted at most 3 times; after the third failed
\* attempt the run is done, not crashed; and no attempt is made before every
\* track was reconciled and the report of the unresolved tracks was written.
C7_WriteBoundedAndLast ==
    /\ update_attempts <= 3
    /\ update_attempts = 3 => pc = "done"
    /\ update_attempts > 0 =>
         /\ pc \in { "update", "done" }
         /\ Len(new_tracks) = Len(titles)
         /\ j = Len(new_tracks) + 1
         /\ not_added_tracks # <<>> =>
              report_file = [exists |-> TRUE,
                             rows |-> Rows(new_tracks, not_added_tracks)]

\* C7's case: three write attempts failed and the run is done, its report
\* written.
C7_Witness ==
    /\ pc = "done"
    /\ update_attempts = 3
    /\ written.kind = "nothing"
    /\ not_added_tracks # <<>>

\* C8: when classification failed, or the classifier reported no song, the
\* record's artist, track and title are each "Unknown"; and title-casing
\* gives "Unknown" for "unknown" in every letter case.
C8_UnknownDefault ==
    /\ (pc # "crashed" /\ (ask.outcome \in { "parse_failure", "final_failure" }
                           \/ ask.no_song)) =>
         /\ Len(new_tracks) = i - 1
         /\ new_tracks[i - 1].artist = Unknown
         /\ new_tracks[i - 1].track = Unknown
         /\ new_tracks[i - 1].title = Unknown
    /\ ask.no_song => \A u \in UnknownCasings : TitleField(u) = Unknown

\* C8's case: the classifier answered unknown for the second title, and the
\* records of both titles are the Unknown record.
C8_Witness ==
    /\ ask.no_song
    /\ Len(new_tracks) = 2
    /\ new_tracks[1].title = Unknown
    /\ new_tracks[2].title = Unknown

\* C9: when the first listed playlist is named "Youtube Scrapping", its id
\* is the playlist id and no playlist is created.
C9_FirstMatchReused ==
    (resolution.done /\ resolution.listing # <<>>
       /\ resolution.listing[1].name = "Youtube Scrapping") =>
        /\ playlist_id = resolution.listing[1].id
        /\ resolution.create_calls = 0
        /\ Len(user_playlists) = Len(resolution.listing)

\* C9's case: resolution ran on a listing whose first playlist has the name.
C9_Witness ==
    /\ resolution.done
    /\ resolution.listing # <<>>
    /\ resolution.listing[1].name = "Youtube Scrapping"
    /\ playlist_id = 1

\* C10 as stated: a record that is the default because the response failed
\* structural parsing was produced by one classifier invocation and no sleep.
C10_ParseFailureNoRetry ==
    ask.outcome = "parse_failure" =>
        /\ ask.backoff_calls + ask.final_calls = 1
        /\ ask.waits = <<>>

\* C11 as stated: whatever fails while one track is processed (the lookup,
\* the membership fetch, the append, or a record without an expected field),
\* the track is marked unresolved and the loop goes on to the next track, or
\* to the report after the last one; the run is not aborted.
C11_FailureConfinedToTrack ==
    (iter.idx # 0 /\ iter.path \in { "crash", "raised", "no_match", "append_failed" }) =>
        /\ iter.idx \in Unresolved
        /\ j = iter.idx + 1
        /\ pc = IF iter.idx < Len(new_tracks) THEN "reconcile" ELSE "report"

\* The digits a text starts with.
LeadingDigits(s) ==
    LET n == CHOOSE n \in 0..Len(s) :
                 /\ \A k \in 1..n : IsDigit(s[k])
                 /\ n < Len(s) => ~IsDigit(s[n + 1])
    IN  SubSeq(s, 1, n)

\* The seconds a hint "<N>s" or "<N>m" asks to wait, N a whole number; -1 for
\* a text that is neither.
HintedSeconds(tail) ==
    LET d == LeadingDigits(tail)
        rest == SubSeq(tail, Len(d) + 1, Len(tail))
    IN  IF d = <<>> \/ rest = <<>> THEN -1
        ELSE IF rest[1] = "s" THEN DigitsValue(d)
        ELSE IF rest \in { << "m" >>, << "m", "." >> } THEN 60 * DigitsValue(d)
        ELSE -1

\* C12 as stated: when the decorated attempts end with an error whose message
\* holds the hint "Please try again in <N>s", the sleep before the final
\* attempt is N seconds, and with the hint "<N>m" it is 60*N seconds.
C12_SleepsHintedTime ==
    (ask.msg # <<>> /\ HintedSeconds(ask.msg) # -1) =>
        ask.waits[Len(ask.waits)] = HintedSeconds(ask.msg)

\* C13 as stated: each iteration issues exactly one catalog search; without a
\* match the track is unresolved and neither the membership fetch nor the
\* append is issued; with the matched pair in the fetched snapshot no append
\* is issued and the track is not unresolved; an append is issued only after
\* a match and a snapshot without the pair.
C13_OneSearchThenFirstSettlingStep ==
    iter.idx # 0 =>
        /\ iter.search_calls = 1
        /\ iter.path = "no_match" =>
             /\ iter.idx \in Unresolved
             /\ iter.fetch_calls = 0
             /\ iter.append_calls = 0
        /\ iter.path = "present" =>
             /\ iter.append_calls = 0
             /\ iter.idx \notin Unresolved
        /\ iter.append_calls <= 1
        /\ iter.append_calls = 1 =>
             /\ iter.fetch_calls = 1
             /\ iter.path \in { "appended", "append_failed" }

\* The ids of the listed playlists whose name matches the target name.
MatchingIds(listing) ==
    { listing[k].id : k \in { h \in 1..Len(listing) : NameMatches(listing[h].name) } }

\* C14 as stated: for every listing, the empty one and one whose matching
\* playlist is not the first included, resolution ends with a playlist id:
\* the id of a listed playlist that matches, with no playlist created, when
\* one matches, and else the id of the one playlist it created.
C14_ResolvesOrCreatesOnce ==
    resolution.done =>
        /\ playlist_id # NoPlaylist
        /\ IF MatchingIds(resolution.listing) # {}
           THEN /\ playlist_id \in MatchingIds(resolution.listing)
                /\ resolution.create_calls = 0
                /\ Len(user_playlists) = Len(resolution.listing)
           ELSE /\ resolution.create_calls = 1
                /\ Len(user_playlists) = Len(resolution.listing) + 1
                /\ \E k \in 1..Len(user_playlists) :
                     /\ user_playlists[k].id = playlist_id
                     /\ user_playlists[k].name = TargetName
                /\ \A k \in 1..Len(resolution.listing) :
                     resolution.listing[k].id # playlist_id

\* C15 as stated: when the startup fetch returned the empty result (the data
\* file is absent), every iteration of the run still searches the catalog
\* and appends a matched track that the snapshot lacks, and the content the
\* run writes holds every track classified in the run.
C15_AbsentStoreStillReconciles ==
    (start_store.kind = "absent" /\ database.kind = "dict") =>
        /\ (iter.idx # 0 /\ iter.path # "crash") => iter.search_calls = 1
        /\ written.kind # "nothing" =>
             \A n \in 1..Len(new_tracks) :
                 \E k \in 1..Len(written.recs) : written.recs[k] = new_tracks[n]

\* C16 as stated: no remote track is in the playlist more than once (Init's
\* playlists hold each track at most once and the run is the only writer),
\* so none was appended twice and none that was there was appended again.
C16_NoDuplicateAppend ==
    \A p \in 1..Len(user_playlists) :
        \A k \in 1..Len(user_playlists[p].items), h \in 1..Len(user_playlists[p].items) :
            k # h => user_playlists[p].items[k] # user_playlists[p].items[h]

\* Whether the value is a string: neither a missing key nor a value of
\* another type.
IsString(f) == f # Absent /\ f # NonStr

\* C17 as stated: whatever the classifier responds, the title gets one
\* record whose artist, track and title are strings and whose original_title
\* is the raw title, and classification goes on: it does not end the run.
C17_ClassificationTotal ==
    /\ ~(pc = "crashed" /\ ask.outcome # "none")
    /\ Len(new_tracks) <= Len(titles)
    /\ i = Len(new_tracks) + 1
    /\ \A n \in 1..Len(new_tracks) :
         /\ IsString(new_tracks[n].artist)
         /\ IsString(new_tracks[n].track)
         /\ IsString(new_tracks[n].title)
         /\ new_tracks[n].original_title = titles[n]

\* C18 as stated: when the scrape failed, the run calls no classifier, makes
\* no catalog search and no append, writes no report file, and a fetch of
\* the record store gives after the run what it gave before it.
C18_ScrapeFailureNoOp ==
    (~raw.scraped /\ pc \notin { "fetch", "content" }) =>
        /\ titles = <<>>
        /\ asked = {}
        /\ new_tracks = <<>>
        /\ iter = NoIter
        /\ confirmed = {}
        /\ report_file = start_report
        /\ get_file_from_gist(store, TRUE) = get_file_from_gist(start_store, TRUE)

\* C19: the report file changes only in the report step of a run with an
\* unresolved track; after that step it holds exactly the run's unresolved
\* tracks, one row each in the order they were met, whatever it held before;
\* with no unresolved track it is the file the run started with.
C19_ReportOnlyWhenUnresolved ==
    /\ pc \notin { "update", "done" } => report_file = start_report
    /\ pc \in { "update", "done" } =>
         IF not_added_tracks = <<>>
         THEN report_file = start_report
         ELSE /\ report_file.exists
              /\ Len(report_file.rows) = Len(not_added_tracks)
              /\ \A k \in 1..Len(not_added_tracks) :
                   report_file.rows[k] = new_tracks[not_added_tracks[k]]

\* C19's case: the run started beside the report of an earlier run and
\* replaced it with its own unresolved track.
C19_Witness ==
    /\ pc = "done"
    /\ start_report.exists
    /\ Len(not_added_tracks) = 1
    /\ report_file.rows # start_report.rows
    /\ report_file.rows = << new_tracks[not_added_tracks[1]] >>

\* C20 as stated: a track whose artist, track and title are "Unknown" never
\* causes an append call, whatever the catalog search returns.
C20_UnknownNeverAppended ==
    (/\ iter.idx # 0
     /\ new_tracks[iter.idx].artist = Unknown
     /\ new_tracks[iter.idx].track = Unknown
     /\ new_tracks[iter.idx].title = Unknown) =>
        iter.append_calls = 0

\* Whether no two records of the list have the same original_title.
OnePerTitle(recs) ==
    \A k \in 1..Len(recs), h \in 1..Len(recs) :
        k # h => recs[k].original_title # recs[h].original_title

\* C21 as stated: the store started with at most one record per
\* original_title, so after a run whose write succeeded it holds at most one
\* record per original_title, also when the page showed a title twice.
C21_OneRecordPerTitle ==
    (OnePerTitle(start_store.recs) /\ written.kind # "nothing") =>
        OnePerTitle(store.recs)

\* C22: on every interleaving, once the step has returned: if the value the
\* main thread read after the join was a captured code, that code is returned
\* and input() was never called; otherwise input() was called and the code
\* the user meant is returned; and input() is never called after a captured
\* code was read.
C22_CapturedElseManual ==
    /\ auth.prompted => not_auth_code(auth.seen)
    /\ main_pc = "returned" =>
         /\ auth.returned \in Codes
         /\ IF auth.seen \in Codes
            THEN auth.returned = auth.seen /\ ~auth.prompted
            ELSE auth.prompted /\ auth.returned = auth.meant

\* C22's case: the join timed out while the handler was working on a
\* callback, the main thread read no code and the typed link's code was
\* returned, while the listener captured another code.
C22_Witness ==
    /\ main_pc = "returned"
    /\ auth.joined = "timeout"
    /\ auth.prompted
    /\ server_auth_code \in Codes
    /\ auth.returned \in Codes
    /\ auth.returned # server_auth_code

\* C23 as stated: the listener takes at most one request, and once the main
\* thread has left the step, by a return or by an exception, the listener has
\* ended, is ending, or has a connection to take: it is not left blocked on
\* a socket nothing connects to, which would keep the process from exiting.
C23_ListenerTransient ==
    /\ auth.handled <= 1
    /\ main_pc \in { "returned", "raised" } =>
         \/ listener \in { "handling", "finishing", "terminated" }
         \/ backlog # <<>>

====
